---- MODULE Spec2Model ----
(***************************************************************************)
(* Audit signal handlers of apps/audits/signal_handlers.py.                *)
(*                                                                         *)
(* The handlers turn persistence and authentication notifications into     *)
(* audit records (OperateLog, PasswordChangeLog, UserLoginLog).            *)
(* on_audits_log_create, which writes a saved record to the syslog, is     *)
(* connected to no signal in this file and no handler calls it; it runs    *)
(* when code outside the file calls it.                                    *)
(* Text that the code slices or formats is a sequence of one-character     *)
(* strings; identifiers and labels that are only copied are plain strings. *)
(* The clock is not modelled: one instant, Now, stands for every reading,  *)
(* and the datetime column of the login log is left out.  The debug output *)
(* (logger.debug, print) is left out: no handler reads it back.            *)
(***************************************************************************)
EXTENDS Integers, Sequences, FiniteSets, TLC

\* ------------------------------------------------------------------ bounds

\* Number of external notifications handled in one behaviour.
MaxEvents == 1

\* Number of external notifications in a behaviour of the replay
\* specification.
MaxReplays == 2

\* Number of OperateLog rows one flow may add before the model stops
\* following it.
MaxChain == 2

\* Number of lines written to the syslog in one behaviour.
MaxLines == 2

\* Number of threads that call get_login_backend at the same time.
NThreads == 2

\* Length of the digit run in the long display names.
LongNameLen == 130

\* ------------------------------------------------------- program constants

\* resource_tmpl.format(...)[:128]
ResourceCap == 128

\* reason[:128]
ReasonCap == 128

\* user_agent[0:254]
UserAgentEnd == 254

\* --------------------------------------------------------------- variables

VARIABLES
    current_request,  \* jumpserver.utils.current_request of the running flow
    current_org,      \* orgs.utils.current_org.id
    operateLogs,      \* rows of audits.OperateLog, oldest first
    passwordLogs,     \* rows of audits.PasswordChangeLog
    loginLogs,        \* rows of audits.UserLoginLog
    sysLog,           \* lines written through sys_logger
    pending,          \* post_save receiver calls still to run, next first
    last,             \* the last external notification and the sizes before it
    nEvents,          \* external notifications handled so far
    wrapped,          \* AUTH_BACKEND_LABEL_MAPPING._wrapped
    threads,          \* the calls of get_login_backend that run concurrently
    frame             \* the activation of on_m2m_changed that runs step by step

\* -------------------------------------------------------------------- text

Min(a, b) == IF a < b THEN a ELSE b

Digits == <<"0", "1", "2", "3", "4", "5", "6", "7", "8", "9">>

\* A text of n characters whose i-th character is the last digit of i.
Fill(n) == [i \in 1..n |-> Digits[(i % 10) + 1]]

\* Python's s[lo:hi] for 0 <= lo.
PySlice(s, lo, hi) == SubSeq(s, lo + 1, Min(hi, Len(s)))

\* dict.get(key, default)
DictGet(d, key, default) == IF key \in DOMAIN d THEN d[key] ELSE default

T_alice == <<"a", "l", "i", "c", "e">>
T_bob == <<"b", "o", "b">>
T_Alice == <<"A", "l", "i", "c", "e">>
T_Bob == <<"B", "o", "b">>
T_dave == <<"d", "a", "v", "e">>
T_admins == <<"a", "d", "m", "i", "n", "s">>
T_web1 == <<"w", "e", "b", "1">>
T_root == <<"/", "r", "o", "o", "t">>
T_perm == <<"p", "e", "r", "m">>
T_other == <<"o", "b", "j">>
T_System == <<"S", "y", "s", "t", "e", "m">>
T_Anonymous == <<"A", "n", "o", "n", "y", "m", "o", "u", "s", "U", "s", "e", "r">>
T_JOINED == <<" ", "J", "O", "I", "N", "E", "D", " ">>
T_LEFT == <<" ", "L", "E", "F", "T", " ">>
T_ADD == <<" ", "A", "D", "D", " ">>
T_REMOVE == <<" ", "R", "E", "M", "O", "V", "E", " ">>

\* ---------------------------------------------------------------- entities

PKs == {1, 2}

Entity(c, k) == [cls |-> c, pk |-> k]

AnonymousUser == Entity("AnonymousUser", 0)

\* The subclasses of the models of the recorded relations: Host rows are
\* Asset instances, PermNode is a proxy of Node.
BaseOf == [Host |-> "Asset", PermNode |-> "Node"]

IsInstance(e, c) == e.cls = c \/ (e.cls \in DOMAIN BaseOf /\ BaseOf[e.cls] = c)

\* The audit record models of audits.models.
AuditModels == {"UserLoginLog", "OperateLog", "PasswordChangeLog"}

LongName == <<"L">> \o Fill(LongNameLen)

\* str(obj): pk 2 of the non-user models has a name longer than any cap.
Str(e) ==
    CASE e.cls = "AnonymousUser" -> T_Anonymous
      [] e.cls = "User" -> IF e.pk = 1 THEN T_Alice ELSE T_Bob
      [] e.cls \in AuditModels -> T_other
      [] e.pk = 2 -> LongName
      [] e.cls = "UserGroup" -> T_admins
      [] e.cls \in {"Asset", "Host"} -> T_web1
      [] e.cls \in {"Node", "PermNode"} -> T_root
      [] e.cls = "AssetPermission" -> T_perm
      [] OTHER -> T_other

is_authenticated(u) == u.cls # "AnonymousUser"

\* user.username
Username(u) == IF u.pk = 1 THEN T_alice ELSE T_bob

\* user.mfa_enabled
mfa_enabled(u) == u.pk = 1

\* ------------------------------------------------------- ambient context

\* current_request when no request is bound to the thread (falsy proxy).
NoRequest == [bound |-> FALSE]

Bound(req) == req.bound

\* common.utils.get_request_ip: the resolved address, "" when unavailable.
get_request_ip(req) == IF Bound(req) THEN req.ip ELSE ""

\* current_request.user if current_request else None, then
\* `not user or not user.is_authenticated`.
ActorResolved(req) == Bound(req) /\ is_authenticated(req.user)

\* ------------------------------------------------- relation-change mapper

Ph(k) == [ph |-> k]

Lit(t) == [lit |-> t]

IsPh(seg) == "ph" \in DOMAIN seg

\* Sender name -> <<resource type, add template, remove template>>.
M2M_NEED_RECORD ==
    [ User_groups |->
        << "User and Group",
           <<Ph("User"), Lit(T_JOINED), Ph("UserGroup")>>,
           <<Ph("User"), Lit(T_LEFT), Ph("UserGroup")>> >>,
      Asset_nodes |->
        << "Node and Asset",
           <<Ph("Node"), Lit(T_ADD), Ph("Asset")>>,
           <<Ph("Node"), Lit(T_REMOVE), Ph("Asset")>> >>,
      AssetPermission_users |->
        << "User asset permissions",
           <<Ph("AssetPermission"), Lit(T_ADD), Ph("User")>>,
           <<Ph("AssetPermission"), Lit(T_REMOVE), Ph("User")>> >>,
      AssetPermission_user_groups |->
        << "User group asset permissions",
           <<Ph("AssetPermission"), Lit(T_ADD), Ph("UserGroup")>>,
           <<Ph("AssetPermission"), Lit(T_REMOVE), Ph("UserGroup")>> >>,
      AssetPermission_assets |->
        << "Asset permission",
           <<Ph("AssetPermission"), Lit(T_ADD), Ph("Asset")>>,
           <<Ph("AssetPermission"), Lit(T_REMOVE), Ph("Asset")>> >>,
      AssetPermission_nodes |->
        << "Node permission",
           <<Ph("AssetPermission"), Lit(T_ADD), Ph("Node")>>,
           <<Ph("AssetPermission"), Lit(T_REMOVE), Ph("Node")>> >> ]

\* Variant: the pre_add signal is recorded too.
M2M_ACTION_MAPER_pre_add ==
    [ pre_add |-> "create", post_add |-> "create", post_remove |-> "delete",
      post_clear |-> "delete" ]

M2M_ACTION_MAPER ==
    [post_add |-> "create", post_remove |-> "delete", post_clear |-> "delete"]

\* The placeholders of a template that the keyword arguments do not supply:
\* str.format raises KeyError when there is one.
MissingKeys(tmpl, kwargs) ==
    {tmpl[i].ph : i \in {j \in 1..Len(tmpl) : IsPh(tmpl[j])}} \ DOMAIN kwargs

RECURSIVE FormatFrom(_, _, _)
FormatFrom(tmpl, kwargs, i) ==
    IF i > Len(tmpl) THEN <<>>
    ELSE (IF IsPh(tmpl[i]) THEN kwargs[tmpl[i].ph] ELSE tmpl[i].lit)
         \o FormatFrom(tmpl, kwargs, i + 1)

\* tmpl.format(**kwargs), defined when MissingKeys(tmpl, kwargs) = {}.
Format(tmpl, kwargs) == FormatFrom(tmpl, kwargs, 1)

\* The pk_set of an m2m_changed signal: a set of primary keys, or None
\* (what the clear signals carry).
PkSet(keys) == [none |-> FALSE, keys |-> keys]

NoPkSet == [none |-> TRUE, keys |-> {}]

\* Variant: model.objects.all(), the key set is not applied.
objects_filter_all(model, pk_set, rows) ==
    [i \in 1..Len(rows) |-> Entity(model, rows[i])]

\* model.objects.filter(pk__in=pk_set) for a set of keys, over a table
\* whose rows have the primary keys `rows`, in table order.
objects_filter(model, pk_set, rows) ==
    LET hit == SelectSeq(rows, LAMBDA k : k \in pk_set.keys)
    IN  [i \in 1..Len(hit) |-> Entity(model, hit[i])]

\* What a handler asks the store to do: the records it creates (in order)
\* and the exception it ends with ("" when it returns normally).
NoEffect == [raised |-> "", created |-> <<>>]

Creates(recs) == [raised |-> "", created |-> recs]

Raises(exc) == [raised |-> exc, created |-> <<>>]

\* ------------------------------------------ generic mutation interceptor

\* The substitution key of the owning instance: "Asset" for an instance of
\* Asset or of a subclass of it, the name of its class for any other.
instance_name(instance) ==
    IF IsInstance(instance, "Asset") THEN "Asset" ELSE instance.cls

\* {instance_name: instance_value, model_name: str(obj)}: the later key wins.
format_kwargs(instance, model, obj) ==
    (model :> Str(obj)) @@ (instance_name(instance) :> Str(instance))

\* Variant: the formatted text is stored whole.
m2m_resource_uncapped(resource_tmpl, instance, model, obj) ==
    Format(resource_tmpl, format_kwargs(instance, model, obj))

\* Variant: the template is filled by position, the instance first.
m2m_resource_positional(resource_tmpl, instance, model, obj) ==
    PySlice(Format(resource_tmpl,
                   (resource_tmpl[1].ph :> Str(instance))
                       @@ (resource_tmpl[Len(resource_tmpl)].ph :> Str(obj))),
            0, ResourceCap)

\* resource_tmpl.format(**{...})[:128], defined when no key is missing.
m2m_resource(resource_tmpl, instance, model, obj) ==
    PySlice(Format(resource_tmpl, format_kwargs(instance, model, obj)),
            0, ResourceCap)

\* The template of a sender for a mapped action: the add template for
\* create, the remove template for delete.
m2m_template(sender, act) ==
    IF act = "create" THEN M2M_NEED_RECORD[sender][2]
    ELSE M2M_NEED_RECORD[sender][3]

\* models.OperateLog(...) for one related object.
m2m_record(req, org, sender, act, instance, model, obj) ==
    [ cls |-> "OperateLog",
      user |-> Str(req.user),
      action |-> act,
      resource_type |-> M2M_NEED_RECORD[sender][1],
      resource |-> m2m_resource(m2m_template(sender, act), instance, model, obj),
      remote_addr |-> get_request_ip(req),
      org_id |-> org ]

\* The body of on_m2m_changed for a recorded action, a resolved actor and
\* a registered sender: one OperateLog per related object, built first and
\* handed to bulk_create together.  filter(pk__in=None) raises: the
\* value of an __in lookup is iterated when the lookup is built.
m2m_records(req, org, sender, action, instance, model, pk_set, rows) ==
    LET act == M2M_ACTION_MAPER[action]
        resource_tmpl == m2m_template(sender, act)
        objs == objects_filter(model, pk_set, rows)
    IN  IF act \notin {"create", "delete"} THEN NoEffect
        ELSE IF pk_set.none THEN Raises("TypeError")
        ELSE IF \E i \in 1..Len(objs) :
                    MissingKeys(resource_tmpl,
                                format_kwargs(instance, model, objs[i])) # {}
             THEN Raises("KeyError")
        ELSE Creates([i \in 1..Len(objs) |->
                         m2m_record(req, org, sender, act, instance, model,
                                    objs[i])])

\* Variant: a bound request is taken for a resolved actor.
on_m2m_changed_any_user(req, org, sender, action, instance, model, pk_set, rows) ==
    IF action \notin DOMAIN M2M_ACTION_MAPER THEN NoEffect
    ELSE IF ~Bound(req) THEN NoEffect
    ELSE IF sender \notin DOMAIN M2M_NEED_RECORD THEN NoEffect
    ELSE m2m_records(req, org, sender, action, instance, model, pk_set, rows)

on_m2m_changed(req, org, sender, action, instance, model, pk_set, rows) ==
    IF action \notin DOMAIN M2M_ACTION_MAPER THEN NoEffect
    ELSE IF ~ActorResolved(req) THEN NoEffect
    ELSE IF sender \notin DOMAIN M2M_NEED_RECORD THEN NoEffect
    ELSE m2m_records(req, org, sender, action, instance, model, pk_set, rows)

\* audits.utils.create_operate_log, the shared record builder: no record
\* without a resolved actor; otherwise a single OperateLog whose
\* resource_type names the type of the entity and whose resource is the
\* display string of the instance, cut to 128 characters.
create_operate_log(req, org, action, sender, resource) ==
    IF ~ActorResolved(req) THEN NoEffect
    ELSE Creates(<< [ cls |-> "OperateLog",
                      user |-> Str(req.user),
                      action |-> action,
                      resource_type |-> sender,
                      resource |-> PySlice(Str(resource), 0, ResourceCap),
                      remote_addr |-> get_request_ip(req),
                      org_id |-> org ] >>)

\* update_fields: None, or the set of saved field names.
NoFields == [none |-> TRUE, names |-> {}]

Fields(names) == [none |-> FALSE, names |-> names]

on_object_created_or_update(req, org, sender, instance, created, update_fields) ==
    IF /\ instance.cls = "User"
       /\ ~update_fields.none /\ update_fields.names # {}
       /\ "last_login" \in update_fields.names
    THEN NoEffect
    ELSE LET action == IF created THEN "create" ELSE "update"
         IN  create_operate_log(req, org, action, sender, instance)

on_object_delete(req, org, sender, instance) ==
    create_operate_log(req, org, "delete", sender, instance)

\* ---------------------------------------------------- password changes

\* Variant: without a request the subject user is recorded as the actor.
on_user_change_password_self(req, sender, user) ==
    LET remote_addr == IF ~Bound(req) THEN "127.0.0.1" ELSE get_request_ip(req)
        change_by ==
            IF ~Bound(req) THEN Str(user)
            ELSE IF ~is_authenticated(req.user) THEN Str(user)
            ELSE Str(req.user)
    IN  Creates(<< [ cls |-> "PasswordChangeLog",
                     user |-> Str(user),
                     change_by |-> change_by,
                     remote_addr |-> remote_addr ] >>)

\* Variant: the branches on is_authenticated are swapped.
on_user_change_password_swapped(req, sender, user) ==
    LET remote_addr == IF ~Bound(req) THEN "127.0.0.1" ELSE get_request_ip(req)
        change_by ==
            IF ~Bound(req) THEN T_System
            ELSE IF is_authenticated(req.user) THEN Str(user)
            ELSE Str(req.user)
    IN  Creates(<< [ cls |-> "PasswordChangeLog",
                     user |-> Str(user),
                     change_by |-> change_by,
                     remote_addr |-> remote_addr ] >>)

on_user_change_password(req, sender, user) ==
    LET remote_addr == IF ~Bound(req) THEN "127.0.0.1" ELSE get_request_ip(req)
        change_by ==
            IF ~Bound(req) THEN T_System
            ELSE IF ~is_authenticated(req.user) THEN Str(user)
            ELSE Str(req.user)
    IN  Creates(<< [ cls |-> "PasswordChangeLog",
                     user |-> Str(user),
                     change_by |-> change_by,
                     remote_addr |-> remote_addr ] >>)

\* ------------------------------------------------------------ mirroring

\* The syslog lines on_audits_log_create writes when it is called for one
\* saved instance: "<category> - <serialized instance>".
on_audits_log_create(sender, instance) ==
    LET line(category) == << [category |-> category, data |-> instance] >>
    IN  CASE sender = "UserLoginLog" -> line("login_log")
          [] sender = "FTPLog" -> line("ftp_log")
          [] sender = "OperateLog" -> line("operation_log")
          [] sender = "PasswordChangeLog" -> line("password_change_log")
          [] sender = "Session" -> line("host_session_log")
          [] sender = "Command" -> line("session_command_log")
          [] OTHER -> <<>>

\* ------------------------------------------------------- authentication

\* Python's None for an optional string argument.
None == "<None>"

BACKEND_SESSION_KEY == "_auth_user_backend"

\* User.SOURCE_BACKEND_MAPPING: source label -> its backends.
SOURCE_BACKEND_MAPPING ==
    [ Local |-> {"AUTH_BACKEND_MODEL", "AUTH_BACKEND_PUBKEY"},
      LDAP |-> {"AUTH_BACKEND_LDAP"} ]

\* The entries the loop over User.SOURCE_BACKEND_MAPPING puts into the
\* dictionary: backend -> label of its source.
backends_from_sources ==
    [b \in UNION {SOURCE_BACKEND_MAPPING[s] : s \in DOMAIN SOURCE_BACKEND_MAPPING}
        |-> CHOOSE s \in DOMAIN SOURCE_BACKEND_MAPPING :
                b \in SOURCE_BACKEND_MAPPING[s]]

\* The entries assigned from the settings.
backends_from_settings ==
    [ AUTH_BACKEND_PUBKEY |-> "SSH Key",
      AUTH_BACKEND_MODEL |-> "Password",
      AUTH_BACKEND_SSO |-> "SSO",
      AUTH_BACKEND_AUTH_TOKEN |-> "Auth Token",
      AUTH_BACKEND_WECOM |-> "WeCom",
      AUTH_BACKEND_FEISHU |-> "FeiShu",
      AUTH_BACKEND_DINGTALK |-> "DingTalk",
      AUTH_BACKEND_TEMP_TOKEN |-> "Temporary token" ]

\* AuthBackendLabelMapping.get_login_backends: the settings entries are
\* assigned after, and so override, the source entries.
get_login_backends == backends_from_settings @@ backends_from_sources

\* `a or b` on strings: the empty string is falsy.
StrOr(a, b) == IF a # "" THEN a ELSE b

\* django.utils.functional.empty: the lazy object is not set up.
Empty == [obj |-> 0]

\* LazyObject, on an access that no other thread interleaves with:
\* `if self._wrapped is empty: self._setup()`, and _setup assigns the
\* dictionary get_login_backends returns.
Setup(w) == IF w = Empty THEN [obj |-> 1, map |-> get_login_backends] ELSE w

\* The dictionary an access to AUTH_BACKEND_LABEL_MAPPING works on.
AUTH_BACKEND_LABEL_MAPPING == Setup(wrapped).map

\* timezone.now(), and its text "%Y-%m-%d %H:%M:%S".
Now == "now"

get_login_backend(request) ==
    LET backend == StrOr(DictGet(request.session, "auth_backend", ""),
                         DictGet(request.session, BACKEND_SESSION_KEY, ""))
        backend_label == DictGet(AUTH_BACKEND_LABEL_MAPPING, backend, None)
    IN  IF backend_label = None THEN "" ELSE backend_label

\* Variant: user_agent[0:255].
generate_data_255(username, request, login_type) ==
    LET user_agent == DictGet(request.META, "HTTP_USER_AGENT", <<>>)
        login_ip == StrOr(get_request_ip(request), "0.0.0.0")
        type1 == IF login_type = None /\ request.drf
                 THEN DictGet(request.META, "HTTP_X_JMS_LOGIN_TYPE", "U")
                 ELSE login_type
        type2 == IF type1 = None THEN "W" ELSE type1
        backend == get_login_backend(request)
    IN  [ username |-> username,
          ip |-> login_ip,
          type |-> type2,
          user_agent |-> PySlice(user_agent, 0, UserAgentEnd + 1),
          backend |-> backend ]

\* Variant: a request without the header gets the web type.
generate_data_header_default_W(username, request, login_type) ==
    LET user_agent == DictGet(request.META, "HTTP_USER_AGENT", <<>>)
        login_ip == StrOr(get_request_ip(request), "0.0.0.0")
        type1 == IF login_type = None /\ request.drf
                 THEN DictGet(request.META, "HTTP_X_JMS_LOGIN_TYPE", "W")
                 ELSE login_type
        type2 == IF type1 = None THEN "W" ELSE type1
        backend == get_login_backend(request)
    IN  [ username |-> username,
          ip |-> login_ip,
          type |-> type2,
          user_agent |-> PySlice(user_agent, 0, UserAgentEnd),
          backend |-> backend ]

generate_data(username, request, login_type) ==
    LET user_agent == DictGet(request.META, "HTTP_USER_AGENT", <<>>)
        login_ip == StrOr(get_request_ip(request), "0.0.0.0")
        type1 == IF login_type = None /\ request.drf
                 THEN DictGet(request.META, "HTTP_X_JMS_LOGIN_TYPE", "U")
                 ELSE login_type
        type2 == IF type1 = None THEN "W" ELSE type1
        backend == get_login_backend(request)
    IN  [ username |-> username,
          ip |-> login_ip,
          type |-> type2,
          user_agent |-> PySlice(user_agent, 0, UserAgentEnd),
          backend |-> backend ]

\* audits.utils.write_login_log(**data): one UserLoginLog with these fields.
write_login_log(data) ==
    Creates(<< data @@ [cls |-> "UserLoginLog"] >>)

\* check_raises: whether check_different_city_login_if_need raised.
on_user_auth_success(sender, user, request, login_type, check_raises) ==
    IF check_raises THEN Raises("Exception")
    ELSE LET data == generate_data(Username(user), request, login_type)
         IN  write_login_log(
                 [mfa |-> IF mfa_enabled(user) THEN 1 ELSE 0, status |-> TRUE]
                 @@ data)

\* request.session["login_time"] = ...: the request as on_user_auth_success
\* leaves it.
login_time_set(request) ==
    [request EXCEPT !.session = [login_time |-> Now] @@ @]

\* Variant: the reason is stored as given.
on_user_auth_failed_untruncated(sender, username, request, reason) ==
    LET data == generate_data(username, request, None)
    IN  write_login_log([reason |-> reason, status |-> FALSE] @@ data)

on_user_auth_failed(sender, username, request, reason) ==
    LET data == generate_data(username, request, None)
    IN  write_login_log(
            [reason |-> PySlice(reason, 0, ReasonCap), status |-> FALSE] @@ data)

\* ------------------------------------------------------------------ inputs

Req(user, ip, drf, meta, session) ==
    [bound |-> TRUE, user |-> user, ip |-> ip, drf |-> drf,
     META |-> meta, session |-> session]

R_web_anon ==
    Req(AnonymousUser, "10.0.0.8", FALSE,
        [HTTP_USER_AGENT |-> Fill(UserAgentEnd + 2)],
        [auth_backend |-> "AUTH_BACKEND_MODEL"])

R_web_bob ==
    Req(Entity("User", 2), "10.0.0.9", FALSE,
        [HTTP_USER_AGENT |-> Fill(UserAgentEnd)],
        [_auth_user_backend |-> "AUTH_BACKEND_LDAP"])

R_api_alice ==
    Req(Entity("User", 1), "", TRUE,
        [HTTP_USER_AGENT |-> Fill(UserAgentEnd + 1), HTTP_X_JMS_LOGIN_TYPE |-> "T"],
        [auth_backend |-> "", _auth_user_backend |-> "AUTH_BACKEND_PUBKEY"])

R_api_anon ==
    Req(AnonymousUser, "192.168.1.1", TRUE, <<>>, <<>>)

R_web_curl ==
    Req(AnonymousUser, "10.0.0.8", FALSE,
        [HTTP_USER_AGENT |-> <<"c", "u", "r", "l">>],
        [auth_backend |-> "custom.Backend"])

\* Ambient contexts <<current_request, current_org.id>> of a view that
\* authenticates a user or changes a password.
Requests ==
    { <<R_web_anon, "org-default">>, <<R_web_bob, "org-dev">>,
      <<R_api_alice, "org-default">>, <<R_api_anon, "org-default">>,
      <<R_web_curl, "org-dev">> }

\* Ambient contexts of the generic paths: none (a background job), an
\* anonymous request, an authenticated one.
Contexts ==
    { <<NoRequest, "org-default">>, <<R_web_anon, "org-default">>,
      <<R_web_bob, "org-dev">> }

\* A many-to-many field: its through model, the model that declares it and
\* the model it points to.
Rel(through, owner, target) ==
    [through |-> through, owner |-> owner, target |-> target]

Relations ==
    { Rel("User_groups", "User", "UserGroup"),
      Rel("Asset_nodes", "Asset", "Node"),
      Rel("AssetPermission_users", "AssetPermission", "User"),
      Rel("AssetPermission_user_groups", "AssetPermission", "UserGroup"),
      Rel("AssetPermission_assets", "AssetPermission", "Asset"),
      Rel("AssetPermission_nodes", "AssetPermission", "Node"),
      Rel("Asset_labels", "Asset", "Label") }

\* The classes an instance of a model can have at run time.
RuntimeClasses(model) ==
    {model} \cup {c \in DOMAIN BaseOf : BaseOf[c] = model}

M2M_SIGNALS == {"pre_add", "post_add", "post_remove", "post_clear"}

\* <<pk_set, primary keys of the rows of the related table>> of the add
\* and remove signals: every key found, one key without a row, no key.
Lookups ==
    { <<PkSet({1, 2}), <<1, 2>>>>, <<PkSet({1, 2}), <<2>>>>,
      <<PkSet({}), <<1, 2>>>> }

\* The clear signals carry no keys.
ClearLookups == { <<NoPkSet, <<1, 2>>>> }

LookupsOf(action) ==
    IF action \in {"pre_clear", "post_clear"} THEN ClearLookups ELSE Lookups

\* The domain instances whose saves and deletions are notified.
SavedInstances ==
    { Entity("User", 1), Entity("User", 2), Entity("Host", 2),
      Entity("Session", 1), Entity("FTPLog", 1), Entity("Command", 1) }

UpdateFieldChoices ==
    { NoFields, Fields({}), Fields({"last_login"}),
      Fields({"last_login", "email"}), Fields({"email"}) }

LoginTypes == {None, "T", "W"}

Reasons == {<<>>, Fill(ReasonCap - 1), Fill(ReasonCap), Fill(ReasonCap + 1)}

\* ------------------------------------------------------------------- state

vars ==
    << current_request, current_org, operateLogs, passwordLogs, loginLogs,
       sysLog, pending, last, nEvents, wrapped, threads, frame >>

Threads == 1..NThreads

\* A thread that has not called get_login_backend yet.
NotCalled ==
    [ pc |-> "idle", backend |-> "", local |-> <<>>, seen |-> <<>>,
      result |-> "", built |-> FALSE, assigned |-> FALSE ]

\* No activation of on_m2m_changed is running.
NoFrame == [pc |-> "none"]

Total == Len(operateLogs) + Len(passwordLogs) + Len(loginLogs)

\* Each created row gets a fresh primary key.
WithIds(recs) == [i \in 1..Len(recs) |-> recs[i] @@ [id |-> Total + i]]

OfClass(recs, c) == SelectSeq(recs, LAMBDA r : r.cls = c)

\* The receivers this file connects to post_save: @receiver(post_save)
\* stands on on_object_created_or_update alone.
Receivers == <<"on_object_created_or_update">>

\* post_save.send(sender, instance, created, update_fields): one call per
\* receiver.
PostSave(sender, instance, created, update_fields) ==
    [i \in 1..Len(Receivers) |->
        [ receiver |-> Receivers[i], sender |-> sender, instance |-> instance,
          created |-> created, update_fields |-> update_fields ]]

RECURSIVE PostSaveAll(_)
\* Model.objects.create(...) of every row: save() sends post_save.
PostSaveAll(recs) ==
    IF recs = <<>> THEN <<>>
    ELSE PostSave(Head(recs).cls, Head(recs), TRUE, NoFields)
         \o PostSaveAll(Tail(recs))

\* Two rows with the same fields, the primary key aside.
SameContent(r1, r2) == [r1 EXCEPT !.id = 0] = [r2 EXCEPT !.id = 0]

\* The rows of a table that have the content of none of the given rows.
Unlike(table, recs) ==
    SelectSeq(table, LAMBDA r : \A i \in 1..Len(recs) : ~SameContent(r, recs[i]))

\* Variant: a row replaces the rows of its table that have its content.
Insert_replacing(recs) ==
    /\ operateLogs' =
           Unlike(operateLogs, OfClass(recs, "OperateLog")) \o OfClass(recs, "OperateLog")
    /\ passwordLogs' =
           Unlike(passwordLogs, OfClass(recs, "PasswordChangeLog"))
               \o OfClass(recs, "PasswordChangeLog")
    /\ loginLogs' =
           Unlike(loginLogs, OfClass(recs, "UserLoginLog")) \o OfClass(recs, "UserLoginLog")

\* The rows enter their tables.
Insert(recs) ==
    /\ operateLogs' = operateLogs \o OfClass(recs, "OperateLog")
    /\ passwordLogs' = passwordLogs \o OfClass(recs, "PasswordChangeLog")
    /\ loginLogs' = loginLogs \o OfClass(recs, "UserLoginLog")

\* objects.create(): insert, then the receivers of post_save run (nested,
\* so before whatever was still to run).
Create(recs, rest) ==
    /\ Insert(recs)
    /\ pending' = PostSaveAll(recs) \o rest

\* objects.bulk_create(): insert only; save() is not called and post_save
\* is not sent.
BulkCreate(recs, rest) ==
    /\ Insert(recs)
    /\ pending' = rest

Sizes ==
    [ nOps |-> Len(operateLogs), nPwd |-> Len(passwordLogs),
      nLogin |-> Len(loginLogs), nSys |-> Len(sysLog) ]

\* The previous flow has run to its end and another notification may be
\* sent.
Idle == pending = <<>> /\ nEvents < MaxEvents

\* An external notification arrives in a flow whose ambient context is
\* (req, org); the previous flow has run to its end.
Arrive(req, org, event) ==
    /\ pending = <<>>
    /\ nEvents' = nEvents + 1
    /\ current_request' = req
    /\ current_org' = org
    /\ last' = event @@ Sizes
    /\ UNCHANGED threads

Init ==
    /\ current_request = NoRequest
    /\ current_org = "org-default"
    /\ operateLogs = <<>>
    /\ passwordLogs = <<>>
    /\ loginLogs = <<>>
    /\ sysLog = <<>>
    /\ pending = <<>>
    /\ last = [kind |-> "init"] @@ Sizes
    /\ nEvents = 0
    /\ wrapped = Empty
    /\ threads = [t \in Threads |-> NotCalled]
    /\ frame = NoFrame

\* ----------------------------------------------------------------- actions

\* A domain entity was saved: post_save is sent to its receivers.
EntitySaved(req, org, sender, instance, created, update_fields) ==
    /\ Arrive(req, org,
              [ kind |-> "post_save", sender |-> sender, instance |-> instance,
                created |-> created, update_fields |-> update_fields,
                raised |-> "" ])
    /\ pending' = PostSave(sender, instance, created, update_fields)
    /\ UNCHANGED <<operateLogs, passwordLogs, loginLogs, sysLog, wrapped, frame>>

\* The receiver on_object_created_or_update runs for the next post_save.
\* The row it creates is saved in turn, which sends post_save again.
OnObjectCreatedOrUpdate ==
    /\ pending # <<>>
    /\ Head(pending).receiver = "on_object_created_or_update"
    /\ LET call == Head(pending)
           effect == on_object_created_or_update(
                         current_request, current_org, call.sender,
                         call.instance, call.created, call.update_fields)
       IN  /\ effect.created # <<>> => Len(operateLogs) - last.nOps < MaxChain
           /\ Create(WithIds(effect.created), Tail(pending))
    /\ UNCHANGED << current_request, current_org, sysLog, last, nEvents,
                    wrapped, threads, frame >>

\* A domain entity is about to be deleted: pre_delete.
EntityDeleting(req, org, sender, instance) ==
    /\ Arrive(req, org,
              [ kind |-> "pre_delete", sender |-> sender, instance |-> instance,
                raised |-> "" ])
    /\ Create(WithIds(on_object_delete(req, org, sender, instance).created), <<>>)
    /\ UNCHANGED <<sysLog, wrapped, frame>>

\* A many-to-many relation changed: m2m_changed.
RelationChanged(req, org, sender, action, instance, model, pk_set, rows) ==
    LET effect == on_m2m_changed(req, org, sender, action, instance, model,
                                 pk_set, rows)
    IN  /\ Arrive(req, org,
                  [ kind |-> "m2m_changed", sender |-> sender, action |-> action,
                    instance |-> instance, model |-> model, pk_set |-> pk_set,
                    rows |-> rows, raised |-> effect.raised ])
        /\ BulkCreate(WithIds(effect.created), <<>>)
        /\ UNCHANGED <<sysLog, wrapped, frame>>

\* post_user_change_password.
PasswordChanged(req, org, user) ==
    /\ Arrive(req, org, [kind |-> "password_changed", user |-> user, raised |-> ""])
    /\ Create(WithIds(on_user_change_password(req, "User", user).created), <<>>)
    /\ UNCHANGED <<sysLog, wrapped, frame>>

\* post_auth_success.  Unless the check raises, generate_data reads the
\* backend label, which sets the lazy mapping up on its first access, and
\* the handler stores the login time in the session of the request.
AuthSuccess(req, org, user, login_type, check_raises) ==
    LET effect == on_user_auth_success("auth", user, req, login_type, check_raises)
        done == effect.raised = ""
    IN  /\ Arrive(IF done THEN login_time_set(req) ELSE req, org,
                  [ kind |-> "auth_success", user |-> user,
                    login_type |-> login_type, check_raises |-> check_raises,
                    raised |-> effect.raised ])
        /\ wrapped' = IF done THEN Setup(wrapped) ELSE wrapped
        /\ Create(WithIds(effect.created), <<>>)
        /\ UNCHANGED <<sysLog, frame>>

\* post_auth_failed.  generate_data reads the backend label, which sets
\* the lazy mapping up on its first access.
AuthFailed(req, org, username, reason) ==
    /\ Arrive(req, org,
              [ kind |-> "auth_failed", username |-> username,
                reason |-> reason, raised |-> "" ])
    /\ wrapped' = Setup(wrapped)
    /\ Create(WithIds(on_user_auth_failed("auth", username, req, reason).created),
              <<>>)
    /\ UNCHANGED <<sysLog, frame>>

\* The notifications the surrounding layers send once the running flow has
\* ended.
SaveNotified ==
    /\ Idle
    /\ \E ctx \in Contexts, instance \in SavedInstances, created \in BOOLEAN,
          uf \in UpdateFieldChoices :
          EntitySaved(ctx[1], ctx[2], instance.cls, instance, created, uf)

DeleteNotified ==
    /\ Idle
    /\ \E ctx \in Contexts, instance \in SavedInstances :
          EntityDeleting(ctx[1], ctx[2], instance.cls, instance)

\* The instance is on either side of the relation, and is of its model's
\* class or of a subclass.
RelationNotified ==
    /\ Idle
    /\ \E ctx \in Contexts, rel \in Relations, reverse \in BOOLEAN,
          action \in M2M_SIGNALS :
          \E look \in LookupsOf(action) :
          LET own == IF reverse THEN rel.target ELSE rel.owner
              model == IF reverse THEN rel.owner ELSE rel.target
          IN  \E c \in RuntimeClasses(own) :
                  RelationChanged(ctx[1], ctx[2], rel.through, action,
                                  Entity(c, 1), model, look[1], look[2])

PasswordNotified ==
    /\ Idle
    /\ \E ctx \in Contexts \cup Requests, pk \in PKs :
          PasswordChanged(ctx[1], ctx[2], Entity("User", pk))

AuthSuccessNotified ==
    /\ Idle
    /\ \E ctx \in Requests, pk \in PKs, lt \in LoginTypes,
          check_raises \in BOOLEAN :
          AuthSuccess(ctx[1], ctx[2], Entity("User", pk), lt, check_raises)

AuthFailedNotified ==
    /\ Idle
    /\ \E ctx \in Requests, reason \in Reasons :
          AuthFailed(ctx[1], ctx[2], T_dave, reason)

Next ==
    \/ SaveNotified
    \/ OnObjectCreatedOrUpdate
    \/ DeleteNotified
    \/ RelationNotified
    \/ PasswordNotified
    \/ AuthSuccessNotified
    \/ AuthFailedNotified

Spec == Init /\ [][Next]_vars

\* ------------------------------------------ on_audits_log_create, called

\* The instances on_audits_log_create is called for: the rows of the audit
\* tables and saved domain instances.
MirrorInstances ==
    {operateLogs[i] : i \in 1..Len(operateLogs)}
        \cup {passwordLogs[i] : i \in 1..Len(passwordLogs)}
        \cup {loginLogs[i] : i \in 1..Len(loginLogs)}
        \cup {Entity("Session", 1), Entity("Command", 1), Entity("User", 1)}

\* on_audits_log_create(sender, instance) is called from outside this
\* file, while no flow of the handlers runs: the line of the instance is
\* written, or nothing for a sender that has no category.
OnAuditsLogCreate ==
    /\ pending = <<>>
    /\ Len(sysLog) < MaxLines
    /\ \E instance \in MirrorInstances :
          sysLog' = sysLog \o on_audits_log_create(instance.cls, instance)
    /\ UNCHANGED << current_request, current_org, operateLogs, passwordLogs,
                    loginLogs, pending, last, nEvents, wrapped, threads, frame >>

MirrorNext ==
    \/ Next
    \/ OnAuditsLogCreate

\* The handlers, and on_audits_log_create called by other code.
SpecMirror == Init /\ [][MirrorNext]_vars

\* ------------------------------------------------------------- replays

\* A few notifications, sent again and again: an authenticated request and
\* a background job save and delete a user and a host, change a user's
\* groups and password, and log in.
ReplayContexts == { <<R_web_bob, "org-dev">>, <<NoRequest, "org-default">> }

ReplayInstances == { Entity("User", 1), Entity("Host", 2) }

ReplayFields ==
    { NoFields, Fields({"last_login"}), Fields({"last_login", "email"}),
      Fields({"email"}) }

Quiet == pending = <<>> /\ nEvents < MaxReplays

SaveReplayed ==
    /\ Quiet
    /\ \E ctx \in ReplayContexts, instance \in ReplayInstances,
          created \in BOOLEAN, uf \in ReplayFields :
          EntitySaved(ctx[1], ctx[2], instance.cls, instance, created, uf)

DeleteReplayed ==
    /\ Quiet
    /\ \E ctx \in ReplayContexts, instance \in ReplayInstances :
          EntityDeleting(ctx[1], ctx[2], instance.cls, instance)

RelationReplayed ==
    /\ Quiet
    /\ \E ctx \in ReplayContexts, action \in {"post_add", "post_remove"} :
          RelationChanged(ctx[1], ctx[2], "User_groups", action,
                          Entity("User", 1), "UserGroup", PkSet({1, 2}),
                          <<1, 2>>)

PasswordReplayed ==
    /\ Quiet
    /\ \E ctx \in ReplayContexts :
          PasswordChanged(ctx[1], ctx[2], Entity("User", 1))

AuthSuccessReplayed ==
    /\ Quiet
    /\ AuthSuccess(R_web_bob, "org-dev", Entity("User", 2), None, FALSE)

AuthFailedReplayed ==
    /\ Quiet
    /\ AuthFailed(R_web_anon, "org-default", T_dave, <<>>)

ReplayNext ==
    \/ SaveReplayed
    \/ OnObjectCreatedOrUpdate
    \/ DeleteReplayed
    \/ RelationReplayed
    \/ PasswordReplayed
    \/ AuthSuccessReplayed
    \/ AuthFailedReplayed

SpecReplay == Init /\ [][ReplayNext]_vars

\* ------------------------------------- the relation handler, step by step

\* on_m2m_changed as its statements run: the checks and the lookups before
\* the loop, one pass of the loop per step, bulk_create.  An object whose
\* __str__ raises (unprintable) makes the loop end with that error.

\* The sets of primary keys of the related objects whose __str__ raises.
Unprintables == {{}, {2}}

BatchContexts == { <<R_web_anon, "org-default">>, <<R_web_bob, "org-dev">> }

BatchSignals == {"pre_add", "post_add", "post_clear"}

\* Lines 103-136: the handler returns, or ends with the error of the
\* lookup, or reaches the loop with an empty to_create.
M2MStart(req, org, sender, action, instance, model, pk_set, rows, unprintable) ==
    LET enters ==
            /\ action \in DOMAIN M2M_ACTION_MAPER
            /\ ActorResolved(req)
            /\ sender \in DOMAIN M2M_NEED_RECORD
            /\ M2M_ACTION_MAPER[action] \in {"create", "delete"}
    IN  /\ Arrive(req, org,
                  [ kind |-> "m2m_changed", sender |-> sender, action |-> action,
                    instance |-> instance, model |-> model, pk_set |-> pk_set,
                    rows |-> rows, unprintable |-> unprintable, built |-> 0,
                    raised |-> IF enters /\ pk_set.none THEN "TypeError"
                               ELSE "" ])
        /\ frame' =
               IF enters /\ ~pk_set.none
               THEN [ pc |-> "loop", sender |-> sender,
                      action |-> M2M_ACTION_MAPER[action], instance |-> instance,
                      model |-> model,
                      objs |-> objects_filter(model, pk_set, rows),
                      unprintable |-> unprintable, to_create |-> <<>> ]
               ELSE NoFrame
        /\ UNCHANGED << operateLogs, passwordLogs, loginLogs, sysLog, pending,
                        wrapped >>

\* Variant: bulk_create runs inside the loop, after each append.
Collect_flushing(rec) ==
    /\ frame' = [frame EXCEPT !.to_create = Append(@, rec)]
    /\ BulkCreate(WithIds(Append(frame.to_create, rec)), pending)

\* to_create.append(...): the record is kept in the list, nothing is
\* written.
Collect(rec) ==
    /\ frame' = [frame EXCEPT !.to_create = Append(@, rec)]
    /\ UNCHANGED <<operateLogs, passwordLogs, loginLogs, pending>>

\* Lines 139-155, one pass: the next object is formatted and its record
\* appended, or the handler ends with the error of str or of format.
M2MBuild ==
    /\ frame.pc = "loop"
    /\ Len(frame.to_create) < Len(frame.objs)
    /\ LET obj == frame.objs[Len(frame.to_create) + 1]
           exc == IF obj.pk \in frame.unprintable THEN "Exception"
                  ELSE IF MissingKeys(m2m_template(frame.sender, frame.action),
                                      format_kwargs(frame.instance, frame.model,
                                                    obj)) # {}
                       THEN "KeyError"
                  ELSE ""
       IN  IF exc # ""
           THEN /\ frame' = NoFrame
                /\ last' = [last EXCEPT !.raised = exc]
                /\ UNCHANGED <<operateLogs, passwordLogs, loginLogs, pending>>
           ELSE /\ Collect(m2m_record(current_request, current_org, frame.sender,
                                      frame.action, frame.instance, frame.model,
                                      obj))
                /\ last' = [last EXCEPT !.built = @ + 1]
    /\ UNCHANGED <<current_request, current_org, sysLog, nEvents, wrapped, threads>>

\* Line 156: models.OperateLog.objects.bulk_create(to_create).
M2MBulkCreate ==
    /\ frame.pc = "loop"
    /\ Len(frame.to_create) = Len(frame.objs)
    /\ BulkCreate(WithIds(frame.to_create), pending)
    /\ frame' = NoFrame
    /\ UNCHANGED << current_request, current_org, sysLog, last, nEvents,
                    wrapped, threads >>

M2MStarted ==
    /\ Idle
    /\ frame = NoFrame
    /\ \E ctx \in BatchContexts, rel \in Relations, reverse \in BOOLEAN,
          action \in BatchSignals, unprintable \in Unprintables :
          \E look \in LookupsOf(action) :
          LET own == IF reverse THEN rel.target ELSE rel.owner
              model == IF reverse THEN rel.owner ELSE rel.target
          IN  \E c \in RuntimeClasses(own) :
                  M2MStart(ctx[1], ctx[2], rel.through, action, Entity(c, 1),
                           model, look[1], look[2], unprintable)

BatchNext ==
    \/ M2MStarted
    \/ M2MBuild
    \/ M2MBulkCreate

SpecBatch == Init /\ [][BatchNext]_vars

\* ------------------------------------------- concurrent first accesses

\* AUTH_BACKEND_LABEL_MAPPING is a django LazyObject: every access to an
\* attribute of it (here .get) first tests `self._wrapped is empty` and
\* calls self._setup() when it is, without a lock, then uses self._wrapped.
\* The threads below each call get_login_backend once; a step is one
\* access to the shared object or one part of get_login_backends.

\* The backends found in the sessions of the calls.
SessionBackends == {"AUTH_BACKEND_MODEL", "AUTH_BACKEND_LDAP", "custom.Backend"}

LazyUntouched ==
    UNCHANGED << current_request, current_org, operateLogs, passwordLogs,
                 loginLogs, sysLog, pending, last, nEvents, frame >>

\* get_login_backend(request) is called: the backend is read from the
\* session.
LazyCall(t) ==
    /\ threads[t].pc = "idle"
    /\ \E b \in SessionBackends :
          threads' = [threads EXCEPT ![t].pc = "proxy", ![t].backend = b]
    /\ UNCHANGED wrapped
    /\ LazyUntouched

\* AUTH_BACKEND_LABEL_MAPPING.get: `if self._wrapped is empty`.
LazyProxy(t) ==
    /\ threads[t].pc = "proxy"
    /\ threads' = [threads EXCEPT ![t].pc =
                      IF wrapped = Empty THEN "sources" ELSE "read"]
    /\ UNCHANGED wrapped
    /\ LazyUntouched

\* _setup -> get_login_backends: a new dictionary gets the source entries.
LazyBuildSources(t) ==
    /\ threads[t].pc = "sources"
    /\ threads' = [threads EXCEPT ![t].pc = "settings",
                                  ![t].local = backends_from_sources,
                                  ![t].built = TRUE]
    /\ UNCHANGED wrapped
    /\ LazyUntouched

\* get_login_backends: the settings entries are assigned.
LazyBuildSettings(t) ==
    /\ threads[t].pc = "settings"
    /\ threads' = [threads EXCEPT ![t].pc = "assign",
                                  ![t].local = backends_from_settings @@ @]
    /\ UNCHANGED wrapped
    /\ LazyUntouched

\* _setup: self._wrapped = the dictionary this thread built.
LazySetup(t) ==
    /\ threads[t].pc = "assign"
    /\ wrapped' = [obj |-> t, map |-> threads[t].local]
    /\ threads' = [threads EXCEPT ![t].pc = "read", ![t].assigned = TRUE]
    /\ LazyUntouched

\* self._wrapped.get(backend, None), and "" for None.
LazyRead(t) ==
    /\ threads[t].pc = "read"
    /\ LET backend_label == DictGet(wrapped.map, threads[t].backend, None)
       IN  threads' = [threads EXCEPT
                          ![t].pc = "done",
                          ![t].seen = wrapped.map,
                          ![t].result =
                              IF backend_label = None THEN "" ELSE backend_label]
    /\ UNCHANGED wrapped
    /\ LazyUntouched

LazyCalled == \E t \in Threads : LazyCall(t)

LazyProxied == \E t \in Threads : LazyProxy(t)

LazySourcesBuilt == \E t \in Threads : LazyBuildSources(t)

LazySettingsBuilt == \E t \in Threads : LazyBuildSettings(t)

LazySetUp == \E t \in Threads : LazySetup(t)

LazyWasRead == \E t \in Threads : LazyRead(t)

LazyNext ==
    \/ LazyCalled
    \/ LazyProxied
    \/ LazySourcesBuilt
    \/ LazySettingsBuilt
    \/ LazySetUp
    \/ LazyWasRead

SpecLazy == Init /\ [][LazyNext]_vars

\* -------------------------------------------------------------- properties

\* The rows and lines added since the last external notification arrived.
NewOps == SubSeq(operateLogs, last.nOps + 1, Len(operateLogs))

NewPwd == SubSeq(passwordLogs, last.nPwd + 1, Len(passwordLogs))

NewLogins == SubSeq(loginLogs, last.nLogin + 1, Len(loginLogs))

NewLines == SubSeq(sysLog, last.nSys + 1, Len(sysLog))

\* The first n characters of s (all of s when it is shorter).
Prefix(s, n) == [i \in 1..(IF Len(s) < n THEN Len(s) ELSE n) |-> s[i]]

\* The ambient context holds an authenticated user.
Authenticated == current_request.bound /\ current_request.user.cls # "AnonymousUser"

Mirrored(category, rec) ==
    \E j \in 1..Len(sysLog) : sysLog[j] = [category |-> category, data |-> rec]

\* C1: once the handlers of a flow have all run, every persisted OperateLog,
\* PasswordChangeLog and UserLoginLog has its line in the secondary log.
C1_EveryPersistedRecordMirrored ==
    pending = <<>> =>
        /\ \A i \in 1..Len(operateLogs) : Mirrored("operation_log", operateLogs[i])
        /\ \A i \in 1..Len(passwordLogs) :
               Mirrored("password_change_log", passwordLogs[i])
        /\ \A i \in 1..Len(loginLogs) : Mirrored("login_log", loginLogs[i])

\* C2: while the flow of an entity-saved, entity-deleting or relation-changed
\* notification runs without a request or with an unauthenticated user, no
\* step changes the OperateLog table.
C2_NoActorNoOperateLog ==
    [][ ( /\ last'.kind \in {"post_save", "pre_delete", "m2m_changed"}
          /\ (~current_request'.bound
              \/ current_request'.user.cls = "AnonymousUser") )
        => operateLogs' = operateLogs ]_vars

\* An anonymous request added two existing groups to a user, a change that
\* is recorded for an authenticated user, and nothing was logged.
C2_Witness ==
    /\ last.kind = "m2m_changed"
    /\ last.action = "post_add"
    /\ last.sender = "User_groups"
    /\ last.pk_set = PkSet({1, 2})
    /\ last.rows = <<1, 2>>
    /\ current_request.bound
    /\ current_request.user.cls = "AnonymousUser"
    /\ operateLogs = <<>>

\* C3: a relation-changed notification whose signal is not post_add,
\* post_remove or post_clear, or whose sender is not in M2M_NEED_RECORD,
\* leaves the OperateLog table unchanged.
C3_OnlyRecordedSignalsOfRegisteredSenders ==
    [][ ( /\ last'.kind = "m2m_changed"
          /\ ~( /\ last'.action \in {"post_add", "post_remove", "post_clear"}
                /\ last'.sender \in DOMAIN M2M_NEED_RECORD ) )
        => operateLogs' = operateLogs ]_vars

\* An authenticated user added two existing labels to an asset through the
\* unregistered relation, and nothing was logged.
C3_Witness ==
    /\ last.kind = "m2m_changed"
    /\ last.action = "post_add"
    /\ last.sender = "Asset_labels"
    /\ last.pk_set = PkSet({1, 2})
    /\ last.rows = <<1, 2>>
    /\ Authenticated
    /\ Len(operateLogs) = last.nOps

\* A relation change that the handler records.
RecordedRelationChange ==
    /\ last.kind = "m2m_changed"
    /\ last.action \in {"post_add", "post_remove", "post_clear"}
    /\ last.sender \in DOMAIN M2M_NEED_RECORD
    /\ Authenticated

\* The new OperateLogs agree on everything but the resource (and their
\* primary key), and carry the context and the mapped action.
BatchSharesFields ==
    /\ \A i \in 1..Len(NewOps) :
          /\ NewOps[i].resource_type = M2M_NEED_RECORD[last.sender][1]
          /\ NewOps[i].user = Str(current_request.user)
          /\ NewOps[i].org_id = current_org
          /\ NewOps[i].remote_addr = current_request.ip
          /\ NewOps[i].action =
                 (IF last.action = "post_add" THEN "create" ELSE "delete")
    /\ \A i, j \in 1..Len(NewOps) :
          [NewOps[i] EXCEPT !.resource = <<>>, !.id = 0]
              = [NewOps[j] EXCEPT !.resource = <<>>, !.id = 0]

\* C4, as claimed: a recorded relation change with N primary keys produces
\* exactly N OperateLogs, which share every field but the resource.
C4_OneRecordPerPrimaryKey ==
    RecordedRelationChange =>
        /\ Len(NewOps) = Cardinality(last.pk_set.keys)
        /\ BatchSharesFields

\* C4, amended: a recorded relation change produces exactly one OperateLog
\* per related instance that its primary keys resolve to (N when all N keys
\* have a row), and these share every field but the resource; it produces
\* none when the handler ends with an error, that of the lookup for a
\* clear signal included.
C4_OneRecordPerRelatedInstance ==
    RecordedRelationChange =>
        /\ Len(NewOps) =
               (IF last.raised = ""
                THEN Cardinality({k \in last.pk_set.keys :
                                    \E i \in 1..Len(last.rows) : last.rows[i] = k})
                ELSE 0)
        /\ BatchSharesFields

\* Two groups were removed from a user: two records, with different
\* resources.
C4_Witness ==
    /\ RecordedRelationChange
    /\ last.action = "post_remove"
    /\ last.pk_set = PkSet({1, 2})
    /\ last.rows = <<1, 2>>
    /\ Len(NewOps) = 2
    /\ NewOps[1].resource # NewOps[2].resource

\* C5: with a resolved actor, an entity-saved notification is skipped only
\* for a User whose update_fields is exactly {last_login}; every other one
\* reaches the record builder, which writes one OperateLog, create when
\* created and update otherwise.
C5_SkipOnlyPureLastLoginTouch ==
    (last.kind = "post_save" /\ pending = <<>> /\ Authenticated) =>
        IF /\ last.instance.cls = "User"
           /\ last.update_fields = [none |-> FALSE, names |-> {"last_login"}]
        THEN NewOps = <<>>
        ELSE /\ Len(NewOps) = 1
             /\ NewOps[1].action = (IF last.created THEN "create" ELSE "update")

\* C7: a password change without a request writes exactly one
\* PasswordChangeLog, by "System" from "127.0.0.1", about the subject user.
C7_PasswordChangeWithoutContext ==
    (last.kind = "password_changed" /\ ~current_request.bound) =>
        /\ Len(NewPwd) = 1
        /\ NewPwd[1].change_by = <<"S", "y", "s", "t", "e", "m">>
        /\ NewPwd[1].remote_addr = "127.0.0.1"
        /\ NewPwd[1].user = Str(last.user)

C7_Witness ==
    /\ last.kind = "password_changed"
    /\ ~current_request.bound
    /\ last.user = Entity("User", 1)
    /\ pending = <<>>
    /\ Len(NewPwd) = 1

\* C8, as claimed: the recorded actor is the ambient user when the request
\* is bound and authenticated, and the subject user when there is no
\* request.
C8_ActorIsSubjectWithoutContext ==
    (last.kind = "password_changed" /\ Len(NewPwd) = 1) =>
        /\ Authenticated => NewPwd[1].change_by = Str(current_request.user)
        /\ ~current_request.bound => NewPwd[1].change_by = Str(last.user)

\* C8, amended: the recorded actor is the ambient user when the request is
\* bound and authenticated, the subject user when the request is bound and
\* unauthenticated, and "System" when there is no request.
C8_ActorByContext ==
    last.kind = "password_changed" =>
        /\ Len(NewPwd) = 1
        /\ NewPwd[1].change_by =
               (IF ~current_request.bound THEN <<"S", "y", "s", "t", "e", "m">>
                ELSE IF current_request.user.cls = "AnonymousUser"
                     THEN Str(last.user)
                ELSE Str(current_request.user))

\* Bob changed Alice's password: Bob is the actor.
C8_Witness ==
    /\ last.kind = "password_changed"
    /\ Authenticated
    /\ current_request.user = Entity("User", 2)
    /\ last.user = Entity("User", 1)
    /\ Len(NewPwd) = 1
    /\ NewPwd[1].change_by # NewPwd[1].user

\* C9: an authentication failure writes exactly one UserLoginLog, with
\* status false and the first 128 characters of the given reason.
C9_FailedLoginReason ==
    last.kind = "auth_failed" =>
        /\ Len(NewLogins) = 1
        /\ NewLogins[1].status = FALSE
        /\ NewLogins[1].reason = Prefix(last.reason, 128)

\* A reason of 129 characters was stored as 128.
C9_Witness ==
    /\ last.kind = "auth_failed"
    /\ Len(last.reason) = 129
    /\ Len(NewLogins) = 1
    /\ Len(NewLogins[1].reason) = 128

\* The User-Agent header of the request (absent: empty).
RequestUserAgent ==
    IF "HTTP_USER_AGENT" \in DOMAIN current_request.META
    THEN current_request.META["HTTP_USER_AGENT"]
    ELSE <<>>

LoginRecorded ==
    /\ last.kind \in {"auth_success", "auth_failed"}
    /\ Len(NewLogins) = 1

\* C10, as claimed: the stored user_agent is the first 255 characters of
\* the request's user agent (all of it when it has at most 255).
C10_UserAgentFirst255 ==
    LoginRecorded => NewLogins[1].user_agent = Prefix(RequestUserAgent, 255)

\* C10, amended: the stored user_agent is the first 254 characters of the
\* request's user agent (all of it when it has at most 254).
C10_UserAgentFirst254 ==
    LoginRecorded => NewLogins[1].user_agent = Prefix(RequestUserAgent, 254)

\* A user agent of 255 characters was stored as 254.
C10_Witness ==
    /\ LoginRecorded
    /\ Len(RequestUserAgent) = 255
    /\ Len(NewLogins[1].user_agent) = 254

\* The related instances a relation change resolves to, in table order.
ResolvedKeys == SelectSeq(last.rows, LAMBDA k : k \in last.pk_set.keys)

\* The display text a placeholder stands for in the i-th record: the
\* related instance's under the related model's name, the owning
\* instance's under any other.
Shown(name, i) ==
    IF name = last.model THEN Str(Entity(last.model, ResolvedKeys[i]))
    ELSE Str(last.instance)

\* The fully formatted text of the i-th record of a relation change: the
\* add template for post_add, the remove template otherwise.
FullText(i) ==
    LET entry == M2M_NEED_RECORD[last.sender]
        tmpl == IF last.action = "post_add" THEN entry[2] ELSE entry[3]
    IN  Shown(tmpl[1].ph, i) \o tmpl[2].lit \o Shown(tmpl[3].ph, i)

\* C11: a recorded relation change whose records were built writes one
\* record per resolved instance, none dropped for its length; the resource
\* of each has at most 128 characters and is exactly the first
\* min(128, length) characters of the fully formatted text.  The only
\* errors the handler ends with are the missing-key error of format and
\* the error of the lookup for a signal without keys: none comes from the
\* length of a text.
C11_ResourceIsExactPrefix ==
    RecordedRelationChange =>
        /\ last.raised \in {"", "KeyError", "TypeError"}
        /\ last.raised = "TypeError" => last.pk_set.none
        /\ last.raised = "" =>
              /\ Len(NewOps) = Len(ResolvedKeys)
              /\ \A i \in 1..Len(NewOps) :
                    /\ Len(NewOps[i].resource) <= 128
                    /\ NewOps[i].resource = Prefix(FullText(i), 128)

\* A user joined two groups, one with a long name: the short text is
\* stored whole, the long one is stored as its first 128 characters.
C11_Witness ==
    /\ RecordedRelationChange
    /\ last.sender = "User_groups"
    /\ last.action = "post_add"
    /\ last.instance.cls = "User"
    /\ Len(NewOps) = 2
    /\ Len(FullText(1)) < 128
    /\ NewOps[1].resource = FullText(1)
    /\ Len(FullText(2)) > 128
    /\ Len(NewOps[2].resource) = 128

\* The login type passed with the notification (post_auth_failed passes
\* none).
ExplicitLoginType ==
    IF last.kind = "auth_success" THEN last.login_type ELSE "<None>"

HasLoginTypeHeader == "HTTP_X_JMS_LOGIN_TYPE" \in DOMAIN current_request.META

\* C12, as claimed: the recorded type is the explicit login type when one
\* is given; otherwise the header's value for an API request that carries
\* the header; otherwise "W".
C12_LoginTypeDefaultsToW ==
    LoginRecorded =>
        NewLogins[1].type =
            (IF ExplicitLoginType # "<None>" THEN ExplicitLoginType
             ELSE IF current_request.drf /\ HasLoginTypeHeader
                  THEN current_request.META["HTTP_X_JMS_LOGIN_TYPE"]
             ELSE "W")

\* C12, amended: the recorded type is the explicit login type when one is
\* given; otherwise, for an API request, the header's value, and "U" when
\* the request has no such header; otherwise, for a request that is not an
\* API request, "W".
C12_LoginTypeByRequest ==
    LoginRecorded =>
        NewLogins[1].type =
            (IF ExplicitLoginType # "<None>" THEN ExplicitLoginType
             ELSE IF current_request.drf
                  THEN (IF HasLoginTypeHeader
                        THEN current_request.META["HTTP_X_JMS_LOGIN_TYPE"]
                        ELSE "U")
             ELSE "W")

\* A login through an API request without the header and without an
\* explicit type was recorded with type "U".
C12_Witness ==
    /\ LoginRecorded
    /\ ExplicitLoginType = "<None>"
    /\ current_request.drf
    /\ ~HasLoginTypeHeader
    /\ NewLogins[1].type = "U"

\* C13: when check_different_city_login_if_need fails during a successful
\* login, no error reaches the sender of post_auth_success and the
\* UserLoginLog of the login is written.
C13_GeoCheckFailureContained ==
    (last.kind = "auth_success" /\ last.check_raises) =>
        /\ last.raised = ""
        /\ Len(NewLogins) = 1
        /\ NewLogins[1].status = TRUE

\* C15: whenever on_object_created_or_update handles an entity-saved
\* notification with a resolved actor, it adds exactly one OperateLog, with
\* a primary key no earlier row has, whatever the table already holds (so
\* a notification delivered twice leaves two rows); the only notifications
\* it adds nothing for are those of the last-login exception, the User
\* saves whose changed fields are last_login alone.
C15_NoDeduplication ==
    [][ ( /\ pending # <<>>
          /\ Head(pending).receiver = "on_object_created_or_update"
          /\ Authenticated )
        => IF /\ Head(pending).instance.cls = "User"
              /\ Head(pending).update_fields = Fields({"last_login"})
           THEN operateLogs' = operateLogs
           ELSE /\ Len(operateLogs') = Len(operateLogs) + 1
                /\ \A i \in 1..Len(operateLogs) :
                      /\ operateLogs'[i] = operateLogs[i]
                      /\ operateLogs'[Len(operateLogs')].id # operateLogs[i].id
                /\ operateLogs'[Len(operateLogs')].action =
                       (IF Head(pending).created THEN "create" ELSE "update") ]_vars

\* Every row of a is, at its place, a row of b.
IsPrefixOf(a, b) ==
    /\ Len(a) <= Len(b)
    /\ \A i \in 1..Len(a) : b[i] = a[i]

\* C16: no step removes or changes a persisted OperateLog,
\* PasswordChangeLog or UserLoginLog: every table only grows at its end.
C16_AppendOnly ==
    [][ /\ IsPrefixOf(operateLogs, operateLogs')
        /\ IsPrefixOf(passwordLogs, passwordLogs')
        /\ IsPrefixOf(loginLogs, loginLogs') ]_vars

\* After a password change, a relation change added two OperateLogs and
\* the PasswordChangeLog is still there.
C16_Witness ==
    /\ nEvents = 2
    /\ last.kind = "m2m_changed"
    /\ last.nPwd = 1
    /\ Len(passwordLogs) = 1
    /\ passwordLogs[1].cls = "PasswordChangeLog"
    /\ Len(operateLogs) = last.nOps + 2

\* C17: among the threads that access the mapping, at most one builds it
\* and at most one assigns it (it is built once and never replaced), and
\* every thread that read it saw all of its entries.
C17_BuiltOnceNeverReplaced ==
    /\ Cardinality({t \in Threads : threads[t].built}) <= 1
    /\ Cardinality({t \in Threads : threads[t].assigned}) <= 1
    /\ \A t \in Threads :
          threads[t].pc = "done" => threads[t].seen = get_login_backends

\* C18: a recorded relation change whose owning instance is of a subclass
\* of the model that declares the relation is formatted under the name of
\* that model: the handler ends without an error and writes one record per
\* resolved instance, with the text of the template.
C18_DeclaredBaseNameIsTheKey ==
    (RecordedRelationChange /\ last.instance.cls \in DOMAIN BaseOf) =>
        /\ last.raised = ""
        /\ Len(NewOps) = Len(ResolvedKeys)
        /\ \A i \in 1..Len(NewOps) :
              NewOps[i].resource = Prefix(FullText(i), 128)

\* What the handler taken as one step does for the relation change that
\* ran step by step.
HandledAtOnce ==
    on_m2m_changed(current_request, current_org, last.sender, last.action,
                   last.instance, last.model, last.pk_set, last.rows)

\* Once the loop and bulk_create have run for printable objects, the rows
\* written and the error are those of the handler taken as one step.
BatchAgreesWithHandler ==
    (last.kind = "m2m_changed" /\ frame = [pc |-> "none"]
        /\ last.unprintable = {}) =>
        /\ last.raised = HandledAtOnce.raised
        /\ Len(NewOps) = Len(HandledAtOnce.created)
        /\ \A i \in 1..Len(NewOps) :
              [NewOps[i] EXCEPT !.id = 0] = HandledAtOnce.created[i] @@ [id |-> 0]

\* C19: in every state of a relation change handled step by step, the
\* OperateLog table holds either none of its records or one per resolved
\* instance: none while the records are being built, none after building
\* one of them failed, all once the handler has returned without an error.
C19_BatchAllOrNone ==
    last.kind = "m2m_changed" =>
        /\ Len(NewOps) \in {0, Len(ResolvedKeys)}
        /\ frame # [pc |-> "none"] => NewOps = <<>>
        /\ last.raised # "" => NewOps = <<>>
        /\ (RecordedRelationChange /\ frame = [pc |-> "none"] /\ last.raised = "")
               => Len(NewOps) = Len(ResolvedKeys)

\* The first of two records was built, building the second failed, and
\* nothing was written.
C19_Witness ==
    /\ RecordedRelationChange
    /\ Len(ResolvedKeys) = 2
    /\ last.built = 1
    /\ last.raised = "Exception"
    /\ frame = [pc |-> "none"]
    /\ NewOps = <<>>

\* The model that declares the class of an instance.
DeclaredModel(e) == IF e.cls \in DOMAIN BaseOf THEN BaseOf[e.cls] ELSE e.cls

\* The handler's result for the same change of the same pair seen from the
\* other side: the i-th related instance owns, the owning instance is the
\* one related object.
FromOtherSide(i) ==
    on_m2m_changed(current_request, current_org, last.sender, last.action,
                   Entity(last.model, ResolvedKeys[i]),
                   DeclaredModel(last.instance),
                   PkSet({last.instance.pk}), <<last.instance.pk>>)

\* C20: each record of a recorded relation change has the resource that
\* the handler writes for the same pair and action when the other side of
\* the relation owns: that event ends without an error too and writes one
\* record with the same text.
C20_ResourceIndependentOfSide ==
    (RecordedRelationChange /\ last.raised = "") =>
        \A i \in 1..Len(NewOps) :
            /\ FromOtherSide(i).raised = ""
            /\ Len(FromOtherSide(i).created) = 1
            /\ FromOtherSide(i).created[1].resource = NewOps[i].resource

\* Alice was added to a group from the group's side: the text names the
\* user first, as it does from the user's side.
C20_Witness ==
    /\ RecordedRelationChange
    /\ last.sender = "User_groups"
    /\ last.action = "post_add"
    /\ last.instance = Entity("UserGroup", 1)
    /\ last.model = "User"
    /\ Len(NewOps) = 2
    /\ NewOps[1].resource =
           <<"A", "l", "i", "c", "e">> \o <<" ", "J", "O", "I", "N", "E", "D", " ">>
               \o <<"a", "d", "m", "i", "n", "s">>

====
